---- MODULE Spec2Model ----
(***************************************************************************)
(* Tic-tac-toe: the move log kept by the redux store, the board projected  *)
(* from it (getBoard / getPlayer), the win detector (getWins), the         *)
(* game-over trigger (checkForWinEpic) and the Square container/component  *)
(* that decide which squares can still be clicked.                         *)
(*                                                                         *)
(* JavaScript arrays are modelled as sequences; a JS index i is position   *)
(* i + 1 of the sequence (see At).  The value undefined of a mark is the   *)
(* string Undefined; an object property that is undefined is a field the   *)
(* record does not have.                                                   *)
(***************************************************************************)
EXTENDS Integers, Sequences, FiniteSets, TLC

VARIABLES
  state,    \* the redux store state: { moves [, winningSquares, winningPlayer] }
  pc,       \* position of the synchronous dispatch: "idle" | "epic" | "emit"
  action,   \* the action most recently passed through the reducer
  out,      \* what checkForWinEpic emitted for the most recent SQUARE_CLICKED
  emitted,  \* every GAME_OVER emitted so far, in order
  log,      \* evaluation harness: the move log under evaluation
  board,    \* evaluation harness: getBoard(log), or the board under test
  wins,     \* evaluation harness: getWins(board)
  result    \* evaluation harness: what checkForWinEpic emits for log

vars == <<state, pc, action, out, emitted, log, board, wins, result>>

storeVars == <<state, pc, action, out, emitted>>
evalVars == <<log, board, wins, result>>

----------------------------------------------------------------------------
(* Constants of the program *)

Undefined == "undefined"
SQUARE_CLICKED == "SQUARE_CLICKED"
GAME_OVER == "GAME_OVER"
NoAction == [type |-> "@@INIT"]

\* number of squares: times(..., 9)
Squares == 9

Cells == 0 .. (Squares - 1)
Marks == {"x", "o"}

\* up to this length the harness builds every log, repeated cells included;
\* longer logs only without a repeated cell
MaxRepeatLen == 4

\* the squares dispatched to the store directly: two cells of the board
\* and the first index past it
DispatchSquares == {0, 4, Squares}

\* direct dispatch stops appending at this log length, one more than the
\* board has squares
MaxMoves == 10

\* direct dispatch stops once the epic has emitted this often
MaxEmitted == 2

\* the fair runs choose among this many playable squares at each move
MaxChoice == 3

----------------------------------------------------------------------------
(* Library functions, as the code uses them *)

Range(list) == {list[i] : i \in 1 .. Len(list)}

NoRepeat(list) == Cardinality(Range(list)) = Len(list)

\* JS array read arr[i]: undefined outside the array
At(arr, i) == IF i + 1 \in DOMAIN arr THEN arr[i + 1] ELSE Undefined

HasField(obj, name) == name \in DOMAIN obj

RECURSIVE indexOfFrom(_, _, _)
indexOfFrom(x, list, i) ==
  IF i >= Len(list) THEN -1
  ELSE IF list[i + 1] = x THEN i
  ELSE indexOfFrom(x, list, i + 1)

RECURSIVE lastIndexOfFrom(_, _, _)
lastIndexOfFrom(x, list, i) ==
  IF i < 0 THEN -1
  ELSE IF list[i + 1] = x THEN i
  ELSE lastIndexOfFrom(x, list, i - 1)

\* mutant of indexOf: position of the last occurrence
indexOf_Last(x, list) == lastIndexOfFrom(x, list, Len(list) - 1)

\* ramda indexOf: position of the first occurrence, -1 if none
indexOf(x, list) == indexOfFrom(x, list, 0)

head(list) == At(list, 0)

length(list) == Len(list)

contains(x, list) == \E i \in 1 .. Len(list) : list[i] = x

RECURSIVE uniq(_)
\* ramda uniq: first occurrences, in order
uniq(list) ==
  IF list = <<>> THEN <<>>
  ELSE LET rest == uniq(SubSeq(list, 1, Len(list) - 1))
           last == list[Len(list)]
       IN IF contains(last, rest) THEN rest ELSE Append(rest, last)

\* mutant of union: concat without uniq
union_Concat(a, b) == a \o b

\* ramda union(a, b) = uniq(concat(a, b))
union(a, b) == uniq(a \o b)

\* JS Boolean() of a mark or undefined
Boolean(v) == v # Undefined

isNonEmptyArray(list) == Len(list) > 0
isNotEmpty(list) == Len(list) > 0

----------------------------------------------------------------------------
(* utilities *)

\* mutant of getPlayer: the parity test is turned around
getPlayer_OddIsX(square, moves) ==
  LET move == indexOf(square, moves)
  IN IF move < 0 THEN Undefined
     ELSE IF move % 2 = 1 THEN "x" ELSE "o"

getPlayer(square, moves) ==
  LET move == indexOf(square, moves)
  IN IF move < 0 THEN Undefined
     ELSE IF move % 2 = 0 THEN "x" ELSE "o"

\* mutant of getBoard: one square short, times(identity, 8)
getBoard_EightSquares(moves) ==
  LET squares == [i \in 1 .. Squares - 1 |-> i - 1]
  IN [i \in 1 .. Len(squares) |-> getPlayer(squares[i], moves)]

getBoard(moves) ==
  LET squares == [i \in 1 .. Squares |-> i - 1]   \* times(identity, 9)
  IN [i \in 1 .. Len(squares) |-> getPlayer(squares[i], moves)]   \* map

\* mutant of patterns: the last diagonal mistyped
patterns_Typo ==
  << <<0, 1, 2>>, <<3, 4, 5>>, <<6, 7, 8>>,
     <<0, 3, 6>>, <<1, 4, 7>>, <<2, 5, 8>>,
     <<0, 4, 8>>, <<2, 4, 7>> >>

patterns ==
  << <<0, 1, 2>>, <<3, 4, 5>>, <<6, 7, 8>>,
     <<0, 3, 6>>, <<1, 4, 7>>, <<2, 5, 8>>,
     <<0, 4, 8>>, <<2, 4, 6>> >>

\* mutant of isWin: the Boolean(board[s1]) test is missing
isWin_NoBoolean(b, pattern) ==
  LET s1 == pattern[1]
      s2 == pattern[2]
      s3 == pattern[3]
  IN At(b, s1) = At(b, s2) /\ At(b, s2) = At(b, s3)

\* mutant of isWin: the third square is not compared
isWin_TwoSquares(b, pattern) ==
  LET s1 == pattern[1]
      s2 == pattern[2]
  IN Boolean(At(b, s1)) /\ At(b, s1) = At(b, s2)

isWin(b, pattern) ==
  LET s1 == pattern[1]
      s2 == pattern[2]
      s3 == pattern[3]
  IN Boolean(At(b, s1)) /\ At(b, s1) = At(b, s2) /\ At(b, s2) = At(b, s3)

\* ramda filter keeps the order of the list it filters
getWins(b) == SelectSeq(patterns, LAMBDA pattern : isWin(b, pattern))

----------------------------------------------------------------------------
(* state: actions, selectors, reducer *)

squareClicked(square) ==
  [type |-> SQUARE_CLICKED, payload |-> [square |-> square]]

gameOver(squares, player) ==
  [type |-> GAME_OVER,
   payload |-> [winners |-> [squares |-> squares, player |-> player]]]

\* squareClicked(): the payload's square is undefined
squareClickedNoSquare ==
  [type |-> SQUARE_CLICKED, payload |-> [field \in {} |-> Undefined]]

\* {}: an action of a type the reducer does not know
unknownAction == [type |-> "@@UNKNOWN"]

initialState == [moves |-> <<>>]

getMoves(s) == s.moves

\* state.winningSquares || []
getWinningSquaresOrEmpty(s) ==
  IF HasField(s, "winningSquares") THEN s.winningSquares ELSE <<>>

\* mutant of rootReducer: the square is put in front of the moves
rootReducer_Prepend(s, a) ==
  IF a.type = GAME_OVER
    THEN [moves |-> s.moves,
          winningSquares |-> a.payload.winners.squares,
          winningPlayer |-> a.payload.winners.player]
  ELSE IF a.type = SQUARE_CLICKED
    THEN IF ~HasField(a.payload, "square")
           THEN s
           ELSE [s EXCEPT !.moves = <<a.payload.square>> \o s.moves]
  ELSE s

\* mutant of rootReducer: GAME_OVER does not spread the state
rootReducer_GameOverDropsMoves(s, a) ==
  IF a.type = GAME_OVER
    THEN [moves |-> <<>>,
          winningSquares |-> a.payload.winners.squares,
          winningPlayer |-> a.payload.winners.player]
  ELSE IF a.type = SQUARE_CLICKED
    THEN IF ~HasField(a.payload, "square")
           THEN s
           ELSE [s EXCEPT !.moves = Append(s.moves, a.payload.square)]
  ELSE s

\* mutant of rootReducer: SQUARE_CLICKED does not spread the state
rootReducer_ClickDropsWinners(s, a) ==
  IF a.type = GAME_OVER
    THEN [moves |-> s.moves,
          winningSquares |-> a.payload.winners.squares,
          winningPlayer |-> a.payload.winners.player]
  ELSE IF a.type = SQUARE_CLICKED
    THEN IF ~HasField(a.payload, "square")
           THEN [moves |-> s.moves]
           ELSE [moves |-> Append(s.moves, a.payload.square)]
  ELSE s

rootReducer(s, a) ==
  IF a.type = GAME_OVER
    THEN [moves |-> s.moves,
          winningSquares |-> a.payload.winners.squares,
          winningPlayer |-> a.payload.winners.player]
  ELSE IF a.type = SQUARE_CLICKED
    THEN IF ~HasField(a.payload, "square")
           THEN s
           ELSE [s EXCEPT !.moves = Append(s.moves, a.payload.square)]
  ELSE s

----------------------------------------------------------------------------
(* epics *)

\* mutant of checkForWinEpic: the full board is tested before the wins
checkForWinEpic_DrawFirst(a, s) ==
  IF a.type # SQUARE_CLICKED THEN <<>>
  ELSE
    LET moves == getMoves(s)
        plays == length(moves)
        b == getBoard(moves)
        w == getWins(b)
        squares == IF length(w) < 2 THEN head(w) ELSE union(w[1], w[2])
        player == At(b, head(squares))
    IN IF plays < 5 THEN <<>>
       ELSE IF plays > 8 THEN <<gameOver(<<>>, Undefined)>>
       ELSE IF isNonEmptyArray(w) THEN <<gameOver(squares, player)>>
       ELSE <<>>

\* mutant of checkForWinEpic: plays > 7 instead of plays > 8
checkForWinEpic_DrawAtEight(a, s) ==
  IF a.type # SQUARE_CLICKED THEN <<>>
  ELSE
    LET moves == getMoves(s)
        plays == length(moves)
        b == getBoard(moves)
        w == getWins(b)
        squares == IF length(w) < 2 THEN head(w) ELSE union(w[1], w[2])
        player == At(b, head(squares))
    IN IF plays < 5 THEN <<>>
       ELSE IF isNonEmptyArray(w) THEN <<gameOver(squares, player)>>
       ELSE IF plays > 7 THEN <<gameOver(<<>>, Undefined)>>
       ELSE <<>>

\* mutant of checkForWinEpic: only the first pattern is carried
checkForWinEpic_HeadOnly(a, s) ==
  IF a.type # SQUARE_CLICKED THEN <<>>
  ELSE
    LET moves == getMoves(s)
        plays == length(moves)
        b == getBoard(moves)
        w == getWins(b)
        squares == head(w)
        player == At(b, head(squares))
    IN IF plays < 5 THEN <<>>
       ELSE IF isNonEmptyArray(w) THEN <<gameOver(squares, player)>>
       ELSE IF plays > 8 THEN <<gameOver(<<>>, Undefined)>>
       ELSE <<>>

\* mutant of checkForWinEpic: plays < 6 instead of plays < 5
checkForWinEpic_FromSixPlays(a, s) ==
  IF a.type # SQUARE_CLICKED THEN <<>>
  ELSE
    LET moves == getMoves(s)
        plays == length(moves)
        b == getBoard(moves)
        w == getWins(b)
        squares == IF length(w) < 2 THEN head(w) ELSE union(w[1], w[2])
        player == At(b, head(squares))
    IN IF plays < 6 THEN <<>>
       ELSE IF isNonEmptyArray(w) THEN <<gameOver(squares, player)>>
       ELSE IF plays > 8 THEN <<gameOver(<<>>, Undefined)>>
       ELSE <<>>

\* mutant of checkForWinEpic: plays > 9 instead of plays > 8
checkForWinEpic_NoDraw(a, s) ==
  IF a.type # SQUARE_CLICKED THEN <<>>
  ELSE
    LET moves == getMoves(s)
        plays == length(moves)
        b == getBoard(moves)
        w == getWins(b)
        squares == IF length(w) < 2 THEN head(w) ELSE union(w[1], w[2])
        player == At(b, head(squares))
    IN IF plays < 5 THEN <<>>
       ELSE IF isNonEmptyArray(w) THEN <<gameOver(squares, player)>>
       ELSE IF plays > 9 THEN <<gameOver(<<>>, Undefined)>>
       ELSE <<>>

\* the actions the epic emits for action a seen with the state s that
\* already includes it (withLatestFrom(state$))
checkForWinEpic(a, s) ==
  IF a.type # SQUARE_CLICKED THEN <<>>
  ELSE
    LET moves == getMoves(s)
        plays == length(moves)
        b == getBoard(moves)
        w == getWins(b)
        squares == IF length(w) < 2 THEN head(w) ELSE union(w[1], w[2])
        player == At(b, head(squares))
    IN IF plays < 5 THEN <<>>
       ELSE IF isNonEmptyArray(w) THEN <<gameOver(squares, player)>>
       ELSE IF plays > 8 THEN <<gameOver(<<>>, Undefined)>>
       ELSE <<>>

----------------------------------------------------------------------------
(* containers/Square and components/Square *)

\* mutant of mapStateToProps: the winning squares are not looked at
mapStateToProps_NoGameOver(s, index) ==
  [player |-> getPlayer(index, getMoves(s))]

mapStateToProps(s, index) ==
  LET moves == getMoves(s)
      winners == getWinningSquaresOrEmpty(s)
      gameIsOver == isNotEmpty(winners)
      player == getPlayer(index, moves)
  IN IF gameIsOver
       THEN [player |-> player, isWinningSquare |-> contains(index, winners)]
       ELSE [player |-> player]

\* mutant of Square: a played square keeps the click handler
Square_PlayedClickable(props) ==
  IF ~HasField(props, "isWinningSquare")
    THEN IF props.player = Undefined
           THEN [component |-> "SquarePlayable", onClick |-> TRUE]
           ELSE [component |-> "SquarePlayed", onClick |-> TRUE]
  ELSE IF props.player = Undefined
    THEN [component |-> "StyledSquare", onClick |-> FALSE]
  ELSE IF props.isWinningSquare
    THEN [component |-> "SquarePlayed", onClick |-> FALSE]
    ELSE [component |-> "SquareLost", onClick |-> FALSE]

\* the element the component renders: its styled component and whether
\* it carries the click handler
Square(props) ==
  IF ~HasField(props, "isWinningSquare")
    THEN IF props.player = Undefined
           THEN [component |-> "SquarePlayable", onClick |-> TRUE]
           ELSE [component |-> "SquarePlayed", onClick |-> FALSE]
  ELSE IF props.player = Undefined
    THEN [component |-> "StyledSquare", onClick |-> FALSE]
  ELSE IF props.isWinningSquare
    THEN [component |-> "SquarePlayed", onClick |-> FALSE]
    ELSE [component |-> "SquareLost", onClick |-> FALSE]

\* square index of the connected board is rendered with a click handler
Playable(s, index) == Square(mapStateToProps(s, index)).onClick

----------------------------------------------------------------------------
(* The store: one click runs reducer, then epic, then the reducer on what  *)
(* the epic emitted, synchronously; pc is the position in that chain.      *)

Init ==
  /\ state = initialState
  /\ pc = "idle"
  /\ action = NoAction
  /\ out = <<>>
  /\ emitted = <<>>
  /\ log = <<>>
  /\ board = getBoard(<<>>)
  /\ wins = getWins(getBoard(<<>>))
  /\ result = <<>>

\* mutant of Click: a click is taken while a GAME_OVER awaits the reducer
Click_WhileEmitting(index) ==
  /\ pc \in {"idle", "emit"}
  /\ Playable(state, index)
  /\ action' = squareClicked(index)
  /\ state' = rootReducer(state, squareClicked(index))
  /\ pc' = "epic"
  /\ UNCHANGED <<out, emitted>>
  /\ UNCHANGED evalVars

\* a playable square is clicked: handleClick dispatches squareClicked(index),
\* the reducer runs and the middleware hands the action to the epic
Click(index) ==
  /\ pc = "idle"
  /\ Playable(state, index)
  /\ action' = squareClicked(index)
  /\ state' = rootReducer(state, squareClicked(index))
  /\ pc' = "epic"
  /\ UNCHANGED <<out, emitted>>
  /\ UNCHANGED evalVars

\* the epic sees the action with the latest state
Epic ==
  /\ pc = "epic"
  /\ out' = checkForWinEpic(action, state)
  /\ emitted' = emitted \o out'
  /\ pc' = IF out' = <<>> THEN "idle" ELSE "emit"
  /\ UNCHANGED <<state, action>>
  /\ UNCHANGED evalVars

\* the emitted action is dispatched: the reducer runs; the epic lets
\* everything but SQUARE_CLICKED pass (ofType)
Emit ==
  /\ pc = "emit"
  /\ action' = head(out)
  /\ state' = rootReducer(state, head(out))
  /\ pc' = "idle"
  /\ UNCHANGED <<out, emitted>>
  /\ UNCHANGED evalVars

Next ==
  \/ \E index \in Cells : Click(index)
  \/ Epic
  \/ Emit

Spec == Init /\ [][Next]_vars

\* the user of the fair runs picks one of the MaxChoice lowest-numbered
\* squares that are rendered with a click handler
FairClick(index) ==
  /\ Cardinality({other \in Cells : other < index /\ Playable(state, other)})
       < MaxChoice
  /\ Click(index)

FairNext ==
  \/ \E index \in Cells : FairClick(index)
  \/ Epic
  \/ Emit

\* the store with a user who keeps playing: while some square is rendered
\* with a click handler one is eventually clicked, the epic's callback
\* returns (Epic is enabled exactly while pc = "epic", so this is weak
\* fairness of Epic), and what it emitted is dispatched
FairSpec ==
  /\ Init
  /\ [][FairNext]_vars
  /\ WF_vars(\E index \in Cells : FairClick(index))
  /\ []<>(pc # "epic")
  /\ WF_vars(Emit)

----------------------------------------------------------------------------
(* Evaluation harness: the pure functions applied to every log *)

Evaluate(moves) ==
  LET b == getBoard(moves)
  IN /\ log' = moves
     /\ board' = b
     /\ wins' = getWins(b)
     /\ result' = checkForWinEpic(squareClicked(moves[Len(moves)]),
                                  [moves |-> moves])
     /\ UNCHANGED storeVars

\* a cell is appended to the log: any cell while the log is short, and
\* only a cell not played before once it is longer
Play(cell) ==
  /\ Len(log) < MaxRepeatLen \/ (NoRepeat(log) /\ cell \notin Range(log))
  /\ Evaluate(Append(log, cell))

EvalNext == \E cell \in Cells : Play(cell)

EvalSpec == Init /\ [][EvalNext]_vars

----------------------------------------------------------------------------
(* Board harness: getWins applied to every board *)

SetCell(cell, mark) ==
  /\ At(board, cell) = Undefined
  /\ board' = [board EXCEPT ![cell + 1] = mark]
  /\ wins' = getWins(board')
  /\ UNCHANGED <<log, result>>
  /\ UNCHANGED storeVars

BoardNext == \E cell \in Cells, mark \in Marks : SetCell(cell, mark)

BoardSpec == Init /\ [][BoardNext]_vars

----------------------------------------------------------------------------
(* The store driven through store.dispatch, as the reducer's tests drive   *)
(* rootReducer: any action, not only the clicks the rendered squares allow *)

DispatchActions ==
  {squareClicked(square) : square \in DispatchSquares}
    \cup {squareClickedNoSquare, unknownAction}

\* store.dispatch(a): the reducer runs, and the middleware hands a
\* SQUARE_CLICKED to the epic
Dispatch(a) ==
  /\ pc = "idle"
  /\ Len(emitted) < MaxEmitted
  /\ Len(rootReducer(state, a).moves) <= MaxMoves
  /\ action' = a
  /\ state' = rootReducer(state, a)
  /\ pc' = IF a.type = SQUARE_CLICKED THEN "epic" ELSE "idle"
  /\ UNCHANGED <<out, emitted>>
  /\ UNCHANGED evalVars

DispatchNext ==
  \/ \E a \in DispatchActions : Dispatch(a)
  \/ Epic
  \/ Emit

DispatchSpec == Init /\ [][DispatchNext]_vars

----------------------------------------------------------------------------
(* Properties *)

\* the store's move log, and what the utilities make of it
Moves == state.moves
MovesBoard == getBoard(Moves)
MovesWins == getWins(MovesBoard)

\* the epic has evaluated the current move log: out is its answer to it
Evaluated == pc # "epic"

PatternCells(ws) == UNION {Range(ws[k]) : k \in 1 .. Len(ws)}

IsGameOver(as) == Len(as) = 1 /\ as[1].type = GAME_OVER
SquaresOf(as) == as[1].payload.winners.squares
PlayerOf(as) == as[1].payload.winners.player

IsWon(as) ==
  IsGameOver(as) /\ SquaresOf(as) # <<>> /\ PlayerOf(as) \in Marks
IsDrawn(as) ==
  IsGameOver(as) /\ SquaresOf(as) = <<>> /\ PlayerOf(as) = Undefined

\* a log is terminal when a pattern is complete on it or it has nine moves
Terminal(moves) == getWins(getBoard(moves)) # <<>> \/ Len(moves) = Squares

Front(moves) == SubSeq(moves, 1, Len(moves) - 1)

GameOverReduced == HasField(state, "winningSquares")

C2_DrawnIffNoWinAtNine ==
  (Evaluated /\ Len(Moves) = 9) =>
    LET w == MovesWins
    IN /\ IsDrawn(out) <=> w = <<>>
       /\ w # <<>> => IsWon(out)

\* the ninth move fills the board without completing a pattern
C2_Witness ==
  /\ pc = "emit"
  /\ Len(Moves) = 9
  /\ MovesWins = <<>>
  /\ out = <<gameOver(<<>>, Undefined)>>

\* C3: for every log shorter than 5 the epic emits nothing, and nothing is
\* missed by that: on every such log without a repeated cell getWins of the
\* projected board is empty.
C3_NothingBeforeFifthPly ==
  Len(log) < 5 =>
    /\ result = <<>>
    /\ NoRepeat(log) => wins = <<>>

\* four plies, each player with two squares of a row
C3_Witness == log = <<0, 3, 1, 4>> /\ result = <<>> /\ wins = <<>>

\* C4: for a log of 5 to 8 moves on which getWins returns no pattern the
\* epic emits nothing and the store holds no winningSquares and no
\* winningPlayer.
C4_UndeterminedStaysSilent ==
  (Evaluated /\ Len(Moves) \in 5 .. 8 /\ MovesWins = <<>>) =>
    /\ out = <<>>
    /\ pc = "idle"
    /\ emitted = <<>>
    /\ ~HasField(state, "winningSquares")
    /\ ~HasField(state, "winningPlayer")

\* five plays, no win: the log of the epic's test
C4_Witness == Evaluated /\ Moves = <<4, 6, 0, 7, 1>> /\ out = <<>>

\* C5: at most one GAME_OVER is ever emitted, and it is emitted in response
\* to the first move that makes the log terminal: before the epic has seen
\* the latest move nothing was emitted, and afterwards something was
\* emitted exactly if the log is terminal, in which case the log without
\* its last move was not.
C5_OneGameOverAtFirstTerminalMove ==
  /\ Len(emitted) <= 1
  /\ ~Evaluated => emitted = <<>>
  /\ Evaluated => (emitted # <<>> <=> Terminal(Moves))
  /\ emitted # <<>> =>
       /\ ~Terminal(Front(Moves))
       /\ emitted = out
       /\ IsGameOver(out)

\* a game won by the fifth move, its GAME_OVER reduced
C5_Witness ==
  /\ pc = "idle"
  /\ Len(Moves) = 5
  /\ Len(emitted) = 1
  /\ GameOverReduced

\* C6: once a GAME_OVER has been reduced into the store, no square is
\* rendered with a click handler, no further SQUARE_CLICKED goes through
\* the store and the move log never changes again.
C6_ConcludedIsTerminal ==
  /\ [](GameOverReduced => \A index \in Cells : ~Playable(state, index))
  /\ [][GameOverReduced =>
          /\ GameOverReduced'
          /\ state'.moves = state.moves
          /\ action'.type # SQUARE_CLICKED]_vars

\* a won game reduced into the store with squares never played, which are
\* rendered as plain squares
C6_Witness ==
  /\ GameOverReduced
  /\ pc = "idle"
  /\ Len(Moves) = 6
  /\ state.winningPlayer = "o"
  /\ \E index \in Cells :
       Square(mapStateToProps(state, index)).component = "StyledSquare"

\* C7: the move log of the store holds only cell indices 0..8, none of
\* them twice, and at most nine of them.
C7_MovesAreDistinctCells ==
  /\ Range(Moves) \subseteq Cells
  /\ \A i, j \in 1 .. Len(Moves) : Moves[i] = Moves[j] => i = j
  /\ Len(Moves) <= 9

\* every square has been played
C7_Witness == Len(Moves) = 9 /\ Range(Moves) = Cells /\ pc = "idle"

\* C8: the move log starts empty; the step that passes a SQUARE_CLICKED
\* carrying a square through the reducer appends exactly that square, and
\* every other step leaves the log as it is, so every earlier log is a
\* prefix of every later one.
C8_MovesAppendOnly ==
  /\ state.moves = <<>>
  /\ [][IF pc = "idle" /\ pc' = "epic" /\ action'.type = SQUARE_CLICKED
          THEN state'.moves = Append(state.moves, action'.payload.square)
          ELSE state'.moves = state.moves]_vars

\* the reducer's test: square 2 appended to the moves [4, 0]
C8_Witness == Moves = <<4, 0, 2>> /\ action = squareClicked(2)

\* C9: for every log of 0 to 9 cells, repeated cells included, getBoard
\* returns 9 elements; element c is undefined if c is not in the log and
\* otherwise 'x' if the first ply that played c has an even position and
\* 'o' if it has an odd one.
C9_BoardIsMarkOfFirstPly ==
  /\ Len(board) = 9
  /\ \A c \in Cells :
       LET plies == {p \in 0 .. Len(log) - 1 : log[p + 1] = c}
       IN IF plies = {}
            THEN board[c + 1] = Undefined
            ELSE \E p \in plies :
                   /\ \A q \in plies : p <= q
                   /\ board[c + 1] = IF p % 2 = 0 THEN "x" ELSE "o"
  /\ log = <<>> => \A c \in Cells : board[c + 1] = Undefined

\* a cell played by both players: it keeps the mark of the first
C9_Witness ==
  /\ log = <<2, 5, 7, 2>>
  /\ board[2 + 1] = "x"
  /\ board[5 + 1] = "o"

\* indices into the pattern table of the patterns that hold one mark on
\* board b
Qualifying(b) ==
  {k \in 1 .. Len(patterns) :
     /\ b[patterns[k][1] + 1] \in Marks
     /\ b[patterns[k][1] + 1] = b[patterns[k][2] + 1]
     /\ b[patterns[k][1] + 1] = b[patterns[k][3] + 1]}

\* C10: for every board of nine cells, each empty, 'x' or 'o', getWins
\* returns exactly the patterns (a, b, c) of the table with board[a] not
\* empty and board[a] = board[b] = board[c], in the order of the table,
\* and the empty sequence when there is none.
C10_WinsAreQualifyingPatternsInOrder ==
  /\ Len(wins) = Cardinality(Qualifying(board))
  /\ \A k \in 1 .. Len(wins) :
       \E i \in Qualifying(board) :
         /\ wins[k] = patterns[i]
         /\ Cardinality({j \in Qualifying(board) : j < i}) = k - 1
  /\ Qualifying(board) = {} => wins = <<>>
  /\ board = <<"x", "x", "x", "o", "o", Undefined, Undefined, Undefined,
               Undefined>> => wins = << <<0, 1, 2>> >>

\* a board on which a row, a column and a diagonal qualify at once
C10_Witness ==
  /\ board = <<"x", "x", "x", "x", "x", "o", "x", "o", "o">>
  /\ wins = << <<0, 1, 2>>, <<0, 3, 6>>, <<2, 4, 6>> >>

\* mark of ply position i, counted from 0
MarkOfPly(i) == IF i % 2 = 0 THEN "x" ELSE "o"

CellsHolding(b, mark) == {c \in Cells : At(b, c) = mark}

\* C11: on every log without a repeated cell, getPlayer of the cell played
\* at ply i is 'x' exactly if i is even and 'o' otherwise, so successive
\* plies alternate, starting with 'x'; getPlayer is undefined for a cell
\* that is not in the log, and for every cell when no log is given (the
\* default moves = []).
C11_MarksAlternateFromX ==
  NoRepeat(log) =>
    /\ \A i \in 0 .. Len(log) - 1 :
         /\ getPlayer(log[i + 1], log) = MarkOfPly(i)
         /\ getPlayer(log[i + 1], log) = "x" <=> i % 2 = 0
         /\ board[log[i + 1] + 1] = MarkOfPly(i)
    /\ \A i \in 0 .. Len(log) - 2 :
         getPlayer(log[i + 1], log) # getPlayer(log[i + 2], log)
    /\ \A c \in Cells \ Range(log) : getPlayer(c, log) = Undefined
    /\ \A c \in Cells : getPlayer(c, <<>>) = Undefined

\* the moves [4, 0] of getPlayer's tests, with a third ply
C11_Witness ==
  /\ log = <<4, 0, 3>>
  /\ board[4 + 1] = "x"
  /\ board[0 + 1] = "o"
  /\ board[3 + 1] = "x"
  /\ board[8 + 1] = Undefined

\* C12: on every log of distinct cells the number of non-empty cells of
\* getBoard(log) is the length of the log, and there are as many 'x' cells
\* as 'o' cells, or one more.
C12_BoardCountsPlies ==
  NoRepeat(log) =>
    LET xs == Cardinality(CellsHolding(board, "x"))
        os == Cardinality(CellsHolding(board, "o"))
    IN /\ Cardinality({c \in Cells : At(board, c) # Undefined}) = Len(log)
       /\ xs + os = Len(log)
       /\ xs - os \in {0, 1}

\* a full board: five 'x' and four 'o'
C12_Witness ==
  /\ Len(log) = 9
  /\ NoRepeat(log)
  /\ Cardinality(CellsHolding(board, "x")) = 5
  /\ Cardinality(CellsHolding(board, "o")) = 4

\* C13: on every log of distinct cells getWins(getBoard(log)) returns at
\* most two patterns, and two patterns holding the same mark hold 'x'.
C13_AtMostTwoPatterns ==
  NoRepeat(log) =>
    /\ Len(wins) <= 2
    /\ \A j, k \in 1 .. Len(wins) :
         (j # k /\ At(board, wins[j][1]) = At(board, wins[k][1])) =>
           At(board, wins[j][1]) = "x"

\* both diagonals held by 'x'
C13_Witness ==
  /\ NoRepeat(log)
  /\ wins = << <<0, 4, 8>>, <<2, 4, 6>> >>
  /\ At(board, 4) = "x"

\* C14: on every log of distinct cells of which no proper prefix holds a
\* completed pattern, and for which getWins returns two patterns, the two
\* patterns share exactly one cell, and it is the last entry of the log.
C14_TwoPatternsShareLastCell ==
  ( /\ Len(wins) = 2
    /\ NoRepeat(log)
    /\ \A k \in 0 .. Len(log) - 1 :
         getWins(getBoard(SubSeq(log, 1, k))) = <<>> ) =>
    LET shared == Range(wins[1]) \cap Range(wins[2])
    IN /\ Cardinality(shared) = 1
       /\ shared = {log[Len(log)]}

\* the ninth ply takes the corner that completes a row and a column
C14_Witness ==
  /\ log = <<1, 4, 2, 5, 3, 7, 6, 8, 0>>
  /\ getWins(getBoard(SubSeq(log, 1, 8))) = <<>>
  /\ wins = << <<0, 1, 2>>, <<0, 3, 6>> >>

\* C15: whenever the epic has evaluated a log of the store on which getWins
\* returns two patterns, the GAME_OVER it emitted carries exactly 5
\* distinct cells, the cells of both patterns with the shared one listed
\* once, and the mark 'x'; for the board [x,o,x,o,x,o,x,o,x] getWins
\* returns exactly [[0,4,8],[2,4,6]] and the GAME_OVER carries the cells
\* {0,2,4,6,8} and the player 'x'.
C15_DoubleWinCarriesFiveCells ==
  LET xoBoard == <<"x", "o", "x", "o", "x", "o", "x", "o", "x">>
  IN /\ getWins(xoBoard) = << <<0, 4, 8>>, <<2, 4, 6>> >>
     /\ Evaluated =>
          LET b == getBoard(Moves)
              w == getWins(b)
          IN /\ Len(w) = 2 =>
                  /\ IsGameOver(out)
                  /\ emitted = out
                  /\ Len(SquaresOf(out)) = 5
                  /\ NoRepeat(SquaresOf(out))
                  /\ Range(SquaresOf(out)) = Range(w[1]) \cup Range(w[2])
                  /\ PlayerOf(out) = "x"
             /\ b = xoBoard =>
                  /\ w = << <<0, 4, 8>>, <<2, 4, 6>> >>
                  /\ IsGameOver(out)
                  /\ Range(SquaresOf(out)) = {0, 2, 4, 6, 8}
                  /\ Len(SquaresOf(out)) = 5
                  /\ PlayerOf(out) = "x"

\* the ninth move takes the centre and completes both diagonals
C15_Witness ==
  /\ pc = "emit"
  /\ MovesBoard = <<"x", "o", "x", "o", "x", "o", "x", "o", "x">>
  /\ Moves[9] = 4
  /\ SquaresOf(out) = <<0, 4, 8, 2, 6>>
  /\ PlayerOf(out) = "x"

\* C16: every GAME_OVER with squares that the epic emitted carries a player
\* that is a mark, and every carried cell holds that mark on the board
\* projected from the move log: any two carried cells read the same.
C16_CarriedCellsHoldOneMark ==
  \A k \in 1 .. Len(emitted) :
    (emitted[k].type = GAME_OVER
       /\ emitted[k].payload.winners.squares # <<>>) =>
      LET b == getBoard(Moves)
          squares == emitted[k].payload.winners.squares
          player == emitted[k].payload.winners.player
      IN /\ player \in Marks
         /\ \A c \in Range(squares) : At(b, c) = player
         /\ \A c, d \in Range(squares) : At(b, c) = At(b, d)
         /\ At(b, head(squares)) = player

\* 'o' wins the middle column with the sixth move
C16_Witness ==
  /\ Len(emitted) = 1
  /\ Len(Moves) = 6
  /\ SquaresOf(emitted) = <<1, 4, 7>>
  /\ PlayerOf(emitted) = "o"
  /\ \A c \in {1, 4, 7} : At(MovesBoard, c) = "o"

\* the lines of the 3x3 grid whose cell (row, column) has index
\* 3 * row + column
GridRow(r) == [i \in 1 .. 3 |-> 3 * r + (i - 1)]
GridColumn(c) == [i \in 1 .. 3 |-> 3 * (i - 1) + c]
MainDiagonal == [i \in 1 .. 3 |-> 3 * (i - 1) + (i - 1)]
AntiDiagonal == [i \in 1 .. 3 |-> 3 * (i - 1) + (3 - i)]

\* C17: the pattern table has exactly 8 triples of cell indices 0..8; in
\* declaration order they are row 0, row 1, row 2, column 0, column 1,
\* column 2, the main diagonal and the anti-diagonal of the 3x3 grid; no
\* two distinct patterns share more than one cell; and every pattern that
\* getWins returns is one of them.
C17_PatternTableIsTheGridLines ==
  /\ Len(patterns) = 8
  /\ \A k \in 1 .. Len(patterns) :
       Len(patterns[k]) = 3 /\ Range(patterns[k]) \subseteq Cells
  /\ patterns = << GridRow(0), GridRow(1), GridRow(2),
                   GridColumn(0), GridColumn(1), GridColumn(2),
                   MainDiagonal, AntiDiagonal >>
  /\ \A j, k \in 1 .. Len(patterns) :
       j # k => Cardinality(Range(patterns[j]) \cap Range(patterns[k])) <= 1
  /\ \A k \in 1 .. Len(wins) : wins[k] \in Range(patterns)

\* a board with one mark everywhere: getWins returns the whole table
C17_Witness ==
  /\ \A c \in Cells : At(board, c) = "o"
  /\ wins = patterns
  /\ wins[8] = <<2, 4, 6>>

\* C18: for every log of distinct cells of length 5..9 of which some
\* prefix holds a completed pattern, the epic applied to the whole log
\* emits a won GAME_OVER with non-empty squares, whatever entries follow
\* that prefix: it never stays silent and never reports a draw.  (Stated
\* as: the GAME_OVER is won, or no prefix holds a completed pattern.)
C18_WinSurvivesTrailingEntries ==
  (Len(log) >= 5 /\ NoRepeat(log)) =>
    \/ /\ IsWon(result)
       /\ result # <<>>
       /\ SquaresOf(result) # <<>>
       /\ ~IsDrawn(result)
    \/ \A k \in 0 .. Len(log) :
         getWins(getBoard(SubSeq(log, 1, k))) = <<>>

\* 'x' completes the top row with the fifth ply and two more entries
\* follow
C18_Witness ==
  /\ log = <<0, 3, 1, 4, 2, 5, 6>>
  /\ getWins(getBoard(SubSeq(log, 1, 5))) = << <<0, 1, 2>> >>
  /\ IsWon(result)
  /\ PlayerOf(result) = "x"

\* the move sequence of the end-to-end scenario
E2EMoves == <<4, 0, 6, 3, 5, 2, 1, 7, 8>>

\* the store's move log is the first Len(Moves) moves of the scenario
OnE2EGame == Moves = SubSeq(E2EMoves, 1, Len(Moves))

\* C20 as stated: while the scenario [4,0,6,3,5,2,1,7,8] is played, nothing
\* is emitted below ply 5, and the board projected from [4,0,6,3,5] is
\* [o,x,_,o,x,x,x,_,_].  The code projects cell 1 as empty: it is played
\* only with the seventh move.
C20_AsStated ==
  OnE2EGame =>
    /\ Len(Moves) < 5 => (emitted = <<>> /\ (Evaluated => out = <<>>))
    /\ Len(Moves) = 5 =>
         getBoard(Moves) = <<"o", "x", Undefined, "o", "x", "x", "x",
                             Undefined, Undefined>>

\* C20, amended: while the scenario [4,0,6,3,5,2,1,7,8] is played, nothing
\* is emitted below ply 5, and the board projected from [4,0,6,3,5] is
\* [o,_,_,o,x,x,x,_,_]: two 'o' and three 'x'.
C20_E2EScenarioBoard ==
  OnE2EGame =>
    /\ Len(Moves) < 5 => (emitted = <<>> /\ (Evaluated => out = <<>>))
    /\ Len(Moves) = 5 =>
         getBoard(Moves) = <<"o", Undefined, Undefined, "o", "x", "x", "x",
                             Undefined, Undefined>>

\* the fifth move of the scenario has been evaluated
C20_Witness ==
  /\ Evaluated
  /\ Moves = <<4, 0, 6, 3, 5>>
  /\ At(MovesBoard, 1) = Undefined
  /\ At(MovesBoard, 5) = "x"
  /\ emitted = <<>>

\* C21: a move log holding the same cell twice is rejected by the reducer
\* or by the evaluation: whether it is kept out of the store or refused by
\* getBoard / checkForWinEpic, the epic emits no GAME_OVER for it.  The
\* code has no such check: rootReducer appends any defined square, getBoard
\* projects the first occurrence of each cell, and the epic emits.
C21_DuplicateLogYieldsNoConclusion ==
  (Evaluated /\ ~NoRepeat(Moves)) => out = <<>>

\* C22: a move log of more than 9 entries is rejected by the reducer or by
\* the evaluation, so the epic emits no GAME_OVER for it, in particular no
\* drawn one.  The code has no such check: the epic only tests plays > 8.
C22_OversizedLogYieldsNoConclusion ==
  (Evaluated /\ Len(Moves) > Squares) => out = <<>>

\* C23: a move log entry outside 0..8 is rejected when it is appended or
\* when the log is evaluated: the epic never completes an evaluation of a
\* state whose moves hold such an entry.  The code stores the entry and
\* getBoard, which looks up the indices 0..8 only, passes over it.
C23_InvalidIndexNeverEvaluated ==
  (Evaluated /\ action.type = SQUARE_CLICKED) => Range(Moves) \subseteq Cells

\* the GAME_OVER actions the epic can build: a draw, or a pattern or the
\* union of two with a mark
GameOverActions ==
  {gameOver(<<>>, Undefined)}
    \cup {gameOver(patterns[k], mark) : k \in 1 .. Len(patterns), mark \in Marks}
    \cup {gameOver(union(patterns[7], patterns[8]), "x")}

\* C24: rootReducer changes the moves only for a SQUARE_CLICKED that
\* carries a square, which it appends: for an action of unknown type it
\* returns the state it was given, for SQUARE_CLICKED without a square and
\* for GAME_OVER the moves keep their value, and before any action has
\* been dispatched the state is initialState, with empty moves.
C24_ReducerKeepsMoves ==
  /\ rootReducer(state, unknownAction) = state
  /\ rootReducer(state, squareClickedNoSquare).moves = state.moves
  /\ \A a \in GameOverActions : rootReducer(state, a).moves = state.moves
  /\ \A square \in DispatchSquares :
       rootReducer(state, squareClicked(square)).moves
         = Append(state.moves, square)
  /\ action = NoAction => (state = initialState /\ state.moves = <<>>)
  /\ rootReducer(initialState, NoAction) = initialState

\* the state of the reducer's test, [4, 0], after squareClicked() without
\* a square
C24_Witness ==
  /\ action = squareClickedNoSquare
  /\ pc = "idle"
  /\ Moves = <<4, 0>>

\* C25: per accepted move the events come in this order: the reducer
\* appends the move; the epic then evaluates a log whose last entry is
\* that move, and leaves the state alone; a GAME_OVER it emitted is the
\* next action reduced, with the moves untouched; and a move is accepted
\* only when the store is idle, so that every GAME_OVER emitted before has
\* been reduced - never between a terminal move and the reduction of its
\* GAME_OVER.
C25_AppendThenEvaluateThenReduce ==
  /\ [](pc = "epic" =>
          /\ action.type = SQUARE_CLICKED
          /\ Moves # <<>>
          /\ Moves[Len(Moves)] = action.payload.square)
  /\ [][pc = "epic" =>
          /\ state' = state
          /\ action' = action
          /\ pc' = (IF Terminal(Moves) THEN "emit" ELSE "idle")]_vars
  /\ [][pc = "emit" =>
          /\ pc' = "idle"
          /\ action' = head(out)
          /\ action'.type = GAME_OVER
          /\ GameOverReduced'
          /\ state'.moves = state.moves]_vars
  /\ [][state'.moves # state.moves =>
          /\ pc = "idle"
          /\ pc' = "epic"
          /\ state'.moves = Append(state.moves, action'.payload.square)
          /\ emitted # <<>> => GameOverReduced]_vars

\* the seventh move was terminal: its GAME_OVER is emitted and not yet
\* reduced
C25_Witness ==
  /\ pc = "emit"
  /\ action.type = SQUARE_CLICKED
  /\ Len(Moves) = 7
  /\ IsWon(out)
  /\ ~GameOverReduced

\* states s and t hold the same winningSquares and winningPlayer, or both
\* hold none
SameWinners(s, t) ==
  /\ HasField(s, "winningSquares") <=> HasField(t, "winningSquares")
  /\ HasField(s, "winningPlayer") <=> HasField(t, "winningPlayer")
  /\ HasField(s, "winningSquares") => s.winningSquares = t.winningSquares
  /\ HasField(s, "winningPlayer") => s.winningPlayer = t.winningPlayer

\* C26: rootReducer on GAME_OVER sets winningSquares and winningPlayer to
\* the squares and the player the action carries (empty squares and no
\* player for a draw), so the store holds the conclusion as the epic
\* emitted it; no other action changes the two fields: SQUARE_CLICKED, with
\* or without a square, and an unknown action leave them as they are.
C26_ConclusionPersistedAsEmitted ==
  /\ \A a \in GameOverActions :
       LET reduced == rootReducer(state, a)
       IN /\ reduced.winningSquares = a.payload.winners.squares
          /\ reduced.winningPlayer = a.payload.winners.player
  /\ LET drawn == rootReducer(state, gameOver(<<>>, Undefined))
     IN drawn.winningSquares = <<>> /\ drawn.winningPlayer = Undefined
  /\ \A a \in DispatchActions \cup {squareClicked(index) : index \in Cells} :
       SameWinners(rootReducer(state, a), state)
  /\ GameOverReduced =>
       /\ state.winningSquares = SquaresOf(emitted)
       /\ state.winningPlayer = PlayerOf(emitted)
  /\ ~GameOverReduced => ~HasField(state, "winningPlayer")

\* a drawn game reduced into the store: empty squares, no player
C26_Witness ==
  /\ GameOverReduced
  /\ action = gameOver(<<>>, Undefined)
  /\ state.winningSquares = <<>>
  /\ state.winningPlayer = Undefined
  /\ Len(Moves) = 9

\* C27: a SQUARE_CLICKED that carries no square, which leaves the move log
\* as it is, makes the epic emit no GAME_OVER, whatever the log is.  The
\* epic does not look at the payload: on a log that is terminal it emits
\* the GAME_OVER again.
C27_NoSquareNoConclusion ==
  (Evaluated /\ action = squareClickedNoSquare) => out = <<>>

\* C28: with a user who keeps clicking while a square is playable, every
\* run of the store reaches a state in which a GAME_OVER has been reduced,
\* and whenever one has been reduced the log holds at least 5 and at most
\* 9 moves.
C28_EveryGameConcludes ==
  /\ <>(GameOverReduced /\ pc = "idle")
  /\ [](GameOverReduced => Len(Moves) \in 5 .. 9)

\* a drawn game concluded by the ninth move of a user who keeps playing
C28_Witness ==
  /\ GameOverReduced
  /\ pc = "idle"
  /\ Len(Moves) = 9
  /\ state.winningSquares = <<>>
  /\ \A index \in Cells : ~Playable(state, index)

\* C29: in every won GAME_OVER the store emits, the carried player is the
\* mark of the move just played, 'x' when the log length is odd and 'o'
\* when it is even, and the carried squares include the last entry of the
\* log; so 'o' wins only with the 6th or 8th move and 'x' only with the
\* 5th, 7th or 9th.
C29_WinnerIsLastMover ==
  \A k \in 1 .. Len(emitted) :
    emitted[k].payload.winners.squares # <<>> =>
      LET squares == emitted[k].payload.winners.squares
          player == emitted[k].payload.winners.player
          plays == Len(Moves)
          last == Moves[plays]
      IN /\ player = getPlayer(last, Moves)
         /\ player = (IF plays % 2 = 1 THEN "x" ELSE "o")
         /\ contains(last, squares)
         /\ player = "o" => plays \in {6, 8}
         /\ player = "x" => plays \in {5, 7, 9}

\* 'o' wins with the eighth move
C29_Witness ==
  /\ Len(emitted) = 1
  /\ Len(Moves) = 8
  /\ PlayerOf(emitted) = "o"
  /\ contains(Moves[8], SquaresOf(emitted))
  /\ At(MovesBoard, Moves[8]) = "o"

\* C30: for every state of the store and every square index,
\* mapStateToProps yields player = getPlayer(index, state.moves); the props
\* hold isWinningSquare exactly when state.winningSquares is non-empty, and
\* then it is true exactly for the indices in winningSquares; after a
\* draw, with empty winningSquares, no square gets isWinningSquare.
C30_PropsFollowTheState ==
  \A index \in Cells :
    LET props == mapStateToProps(state, index)
        over == HasField(state, "winningSquares")
                  /\ state.winningSquares # <<>>
    IN /\ props.player = getPlayer(index, state.moves)
       /\ HasField(props, "isWinningSquare") <=> over
       /\ over =>
            (props.isWinningSquare <=> index \in Range(state.winningSquares))
       /\ (GameOverReduced /\ state.winningSquares = <<>>) =>
            DOMAIN props = {"player"}

\* the top row has won: its squares are winning squares, the others are
\* not
C30_Witness ==
  /\ GameOverReduced
  /\ state.winningSquares = <<0, 1, 2>>
  /\ mapStateToProps(state, 0).isWinningSquare
  /\ ~mapStateToProps(state, 3).isWinningSquare
  /\ mapStateToProps(state, 3).player = "o"

====
